---- MODULE Spec2Model ----
(***************************************************************************)
(* Model of the transactional side-effect scheduling core of bagua:       *)
(*   - TxnManagerDiesel (src/src/db/diesel/mod.rs): the transaction       *)
(*     coordinator, its shared state cell, its shared callback list and   *)
(*     its Drop;                                                          *)
(*   - BasicTxCallback (src/src/db/transaction.rs): the post-commit       *)
(*     scheduler, a callback that hands deferred tasks to a task runner.  *)
(* The coordinator is not Send (its callback list holds Box<dyn           *)
(* TxCallback>, which is not Send), so every handle lives on one thread:  *)
(* the steps below interleave only at the await points of do_transaction. *)
(* Beside it, each under a specification of its own:                       *)
(*   - Field (src/src/entity/field.rs) and the entity built from a        *)
(*     projection by the generated Subset::to_entity;                     *)
(*   - ForeignEntities (src/src/entity/foreign.rs) and save_foreign       *)
(*     (src/src/repository.rs);                                           *)
(*   - TokioLocalTaskRunner and its executor thread                       *)
(*     (src/src/async_task.rs).                                           *)
(***************************************************************************)
EXTENDS Naturals, Integers, Sequences, FiniteSets

\* ------------------------------------------------------------------ bounds
MaxTxns == 2        \* do_transaction calls made on one coordinator (Spec)
MaxSchedTxns == 1   \* do_transaction calls made on one coordinator (SpecSched)
MaxHandles == 2     \* live clones of one coordinator
MaxCallbacks == 2   \* callbacks registered over the coordinator's life
MaxTasks == 2       \* tasks pushed to the scheduler
MaxId == 2          \* identities the items of a relation are drawn from
MaxSpawns == 5      \* tasks given to TokioLocalTaskRunner::spawn
MaxClones == 2      \* the storage adapter and its clones
MaxAdapterOps == 2  \* operations issued through the adapter and its clones
MaxCallers == 3     \* concurrent callers of get_or_init_with
MaxInitSpawns == 2  \* tasks spawned through the handles those callers got
MaxReentCallbacks == 3  \* callbacks registered, between and during invocations
MaxInvokes == 2     \* runs of invoke_callbacks

\* --------------------------------------------------------------- constants
\* TxnState, src/src/db/mod.rs:46-51
TxnState == {"NotInTransaction", "Begun", "Committed", "RolledBack"}
\* TxnResult, src/src/db/mod.rs:40-43
TxnResult == {"Committed", "RolledBack"}

\* The values a business future can yield (BizResult<T, E> = Result<Result<T, E>, anyhow::Error>)
BizValues == {"a", "b"}
BizResults == [tag : {"OkOk", "OkErr", "Err"}, val : BizValues]
\* What do_transaction has returned: nothing yet, a business result, or a
\* system error made by the adapter (the `?` on begin_txn/commit_txn/rollback_txn).
NoValue == [tag |-> "None", val |-> "none"]
Cancelled == [tag |-> "Cancelled", val |-> "none"]
AdapterErr(what) == [tag |-> "Err", val |-> what]

\* How the three storage primitives can end.
BeginOutcomes == {"ok", "no_connection", "begin_failed"}
CommitOutcomes == {"ok", "commit_failed"}
RollbackOutcomes == {"ok", "broken_transaction_manager", "rollback_failed"}

\* BasicTxCallback.tasks : Rc<RefCell<Option<Vec<Task>>>>
NoTasks == [some |-> FALSE, list |-> <<>>]

VARIABLES
    state,      \* TxnManagerDiesel.state: the shared TxnState cell
    callbacks,  \* TxnManagerDiesel.callbacks: the shared pending list (callback ids)
    handles,    \* Arc::strong_count(&self.callbacks): live handles of the coordinator
    pc,         \* where the do_transaction future is: idle, tx, commit, rollback, done
    biz,        \* what tx.await yielded in the running do_transaction
    ret,        \* what the last do_transaction returned
    txn,        \* how many do_transaction calls were made
    ops,        \* storage primitives issued so far, in order
    regs,       \* per callback id: the circumstances of its registration
    calls,      \* every callback invocation so far, in order
    sched,      \* callback id BasicTxCallback::build registered, 0 before build
    tasks,      \* BasicTxCallback.tasks
    pushed,     \* per task id: the circumstances of its push_task
    submitted,  \* the tasks handed to LocalTaskRunner::spawn so far, in order
    ent,        \* an entity: its Field slots, by field name
    touched,    \* the fields of ent a write operation acted on since it was loaded
    written,    \* per field of ent: the value last written to it since it was loaded
    fres,       \* what the last operation on a Field of ent returned
    proj,       \* the projection ent was built from: per field a value or
                \* "omitted", for the relation genres "carried" or "omitted"
    rel,        \* a ForeignEntities value: one to-many relation of an entity
    stored,     \* the membership of that relation in storage
    want,       \* the membership the calls made on rel since its load describe
    rres,       \* what the last operation on rel returned
    queue,      \* the unbounded channel of TokioLocalTaskRunner: tasks sent, not yet received
    recv,       \* whether the channel's receiver (the executor thread) is alive
    phase,      \* per task given to spawn: how far it got
    ranOn,      \* per task: the thread that ran its pre_run / run / post_run
    sres,       \* the last call of spawn: the task and how the call ended
    upd,        \* the updater update_fields was last called with
    slot,       \* DbAdapterDiesel.conn: 0 for None, else the connection it holds
    lockBy,     \* the clone that holds the lock of conn, 0 for none
    cpc,        \* per clone of the adapter: the operation it is in and where
    granted,    \* how many connections the pool has handed to the adapter
    dblog,      \* the operations that have ended: clone, operation, connection, result
    once,       \* the OnceLock<TokioLocalTaskRunner>: 0 while empty, else the queue stored
    ipc,        \* per caller of get_or_init_with: how far the call got
    got,        \* per caller: the queue of the handle it was given, 0 for none
    exec,       \* per queue: its executor thread
    sentTo,     \* per queue: the tasks sent into it
    recvd,      \* per queue: the tasks its executor received
    rlist,      \* the pending callback list, as invoke_callbacks steps through it
    rlock,      \* whether the mutex of that list is held by invoke_callbacks
    rtaken,     \* the callbacks invoke_callbacks took and has not invoked yet
    rinv,       \* how many invoke_callbacks were started
    rreg,       \* per callback registered: the invocation it was registered in, 0 for none
    rlog,       \* the callbacks invoked: which, by which invoke_callbacks, what it did
    rstuck      \* a callback tried to lock the list while invoke_callbacks held it

\* The coordinator and its callbacks.
txnVars == <<state, callbacks, handles, pc, biz, ret, txn, ops, regs, calls,
             sched, tasks, pushed, submitted>>

\* The entity.
fieldVars == <<ent, touched, written, fres, proj, upd>>

\* Everything the coordinator's operations leave alone.
\* The relation.
relVars == <<rel, stored, want, rres>>

\* The task runner.
runVars == <<queue, recv, phase, ranOn, sres>>

\* The storage adapter.
connVars == <<slot, lockBy, cpc, granted, dblog>>

\* The runner's one-time initialisation.
onceVars == <<once, ipc, got, exec, sentTo, recvd>>

\* invoke_callbacks step by step.
reentVars == <<rlist, rlock, rtaken, rinv, rreg, rlog, rstuck>>

dataVars == <<fieldVars, relVars, runVars, connVars, onceVars, reentVars>>

vars == <<txnVars, dataVars>>

InFlight == pc \in {"tx", "commit", "rollback"}

\* A commit or a rollback has been issued to storage for transaction t.
Resolving(t, log) ==
    \E i \in 1..Len(log) : log[i].txn = t /\ log[i].op \in {"commit", "rollback"}

\* Primitive op has been issued to storage for transaction t.
Issued(t, op) ==
    \E i \in 1..Len(ops) : ops[i].txn = t /\ ops[i].op = op

\* Primitive op of transaction t ended with res.
Ended(t, op, res) ==
    \E i \in 1..Len(ops) : ops[i] = [op |-> op, res |-> res, txn |-> t]

\* The invocations of callback cb, as positions of the invocation log.
CallsOf(cb) == {i \in 1..Len(calls) : calls[i].cb = cb}

\* How often x occurs in the sequence s.
Count(x, s) == Cardinality({i \in 1..Len(s) : s[i] = x})

\* ------------------------------------------------------------ construction
\* TxnManagerDiesel::new
TxnIdle ==
    /\ state = "NotInTransaction"
    /\ callbacks = <<>>
    /\ handles = 1
    /\ pc = "idle"
    /\ biz = NoValue
    /\ ret = NoValue
    /\ txn = 0
    /\ ops = <<>>
    /\ regs = <<>>
    /\ calls = <<>>
    /\ sched = 0
    /\ tasks = NoTasks
    /\ pushed = <<>>
    /\ submitted = <<>>

\* ------------------------------------------------------- invoke_callbacks
\* The outcome invoke_callbacks reports for a state (the match on self.state()).
OutcomeOfBegunAsCommitted(st) ==
    CASE st = "Committed" -> "Committed"
      [] st = "RolledBack" -> "RolledBack"
      [] st = "Begun" -> "Committed"
      [] OTHER -> "Ignored"

OutcomeOfIdleAsRolledBack(st) ==
    CASE st = "Committed" -> "Committed"
      [] st = "RolledBack" -> "RolledBack"
      [] OTHER -> "RolledBack"

OutcomeOf(st) ==
    CASE st = "Committed" -> "Committed"
      [] st = "RolledBack" -> "RolledBack"
      [] st = "Begun" -> "RolledBack"
      [] OTHER -> "Ignored"

SpawnedOnRollback(outcome, ts) ==
    IF outcome = "RolledBack" /\ ts.some THEN ts.list ELSE <<>>

SpawnedLastFirst(outcome, ts) ==
    IF outcome = "Committed" /\ ts.some
    THEN [i \in 1..Len(ts.list) |-> ts.list[Len(ts.list) + 1 - i]]
    ELSE <<>>

\* BasicTxCallback::call: what the scheduler hands to the runner.
SpawnedBy(outcome, ts) ==
    IF outcome = "Committed" /\ ts.some THEN ts.list ELSE <<>>

\* BasicTxCallback::call: the task list it leaves behind.
TasksAfterCall(outcome, ts) ==
    IF outcome = "Committed" THEN NoTasks ELSE ts

\* One record per callback of cbs, in list order.
RECURSIVE CallRecords(_, _, _, _)
CallRecords(cbs, outcome, st, resolved) ==
    IF cbs = <<>> THEN <<>>
    ELSE <<[cb |-> Head(cbs), outcome |-> outcome, txn |-> txn,
            resolved |-> resolved]>>
         \o CallRecords(Tail(cbs), outcome, st, resolved)

InList(x, s) == \E i \in 1..Len(s) : s[i] = x

\* The callbacks invoke_callbacks calls when the shared state is st.
Invoked(st) == IF OutcomeOf(st) = "Ignored" THEN <<>> ELSE callbacks

InvokeCallbacksKeepsList(st, log) ==
    LET cbs == Invoked(st)
        outcome == OutcomeOf(st)
        hit == sched # 0 /\ InList(sched, cbs)
    IN  /\ callbacks' = callbacks
        /\ calls' = calls \o CallRecords(cbs, outcome, st, Resolving(txn, log))
        /\ tasks' = IF hit THEN TasksAfterCall(outcome, tasks) ELSE tasks
        /\ submitted' = IF hit
                        THEN submitted \o SpawnedBy(outcome, tasks)
                        ELSE submitted

\* TxnManagerDiesel::invoke_callbacks with the shared state st (the state
\* after any set_state of the same step) and the storage log `log`.
InvokeCallbacks(st, log) ==
    LET cbs == Invoked(st)
        outcome == OutcomeOf(st)
        hit == sched # 0 /\ InList(sched, cbs)
    IN  /\ callbacks' = <<>>
        /\ calls' = calls \o CallRecords(cbs, outcome, st, Resolving(txn, log))
        /\ tasks' = IF hit THEN TasksAfterCall(outcome, tasks) ELSE tasks
        /\ submitted' = IF hit
                        THEN submitted \o SpawnedBy(outcome, tasks)
                        ELSE submitted

NoInvoke == UNCHANGED <<callbacks, calls, tasks, submitted>>

\* ------------------------------------------------------------- operations
\* The handles other code can use: do_transaction borrows one mutably.
FreeHandles == IF InFlight THEN handles - 1 ELSE handles

\* Clone for TxnManagerDiesel (#[derive(Clone)]): one more Arc reference.
Clone ==
    /\ FreeHandles >= 1
    /\ handles < MaxHandles
    /\ handles' = handles + 1
    /\ UNCHANGED dataVars
    /\ UNCHANGED <<state, callbacks, pc, biz, ret, txn, ops, regs, calls,
                   sched, tasks, pushed, submitted>>

DropInvokesAlways ==
    /\ FreeHandles >= 1
    /\ InvokeCallbacks(state, ops)
    /\ handles' = handles - 1
    /\ UNCHANGED dataVars
    /\ UNCHANGED <<state, pc, biz, ret, txn, ops, regs, sched, pushed>>

\* Drop for TxnManagerDiesel.
Drop ==
    /\ FreeHandles >= 1
    /\ IF handles = 1 THEN InvokeCallbacks(state, ops) ELSE NoInvoke
    /\ handles' = handles - 1
    /\ UNCHANGED dataVars
    /\ UNCHANGED <<state, pc, biz, ret, txn, ops, regs, sched, pushed>>

RegRecord == [txn |-> txn, state |-> state]

\* TxnManagerDiesel::register_callback with a callback that only records its call.
RegisterCallback ==
    /\ FreeHandles >= 1
    /\ Len(regs) < MaxCallbacks
    /\ regs' = Append(regs, RegRecord)
    /\ callbacks' = Append(callbacks, Len(regs) + 1)
    /\ UNCHANGED dataVars
    /\ UNCHANGED <<state, handles, pc, biz, ret, txn, ops, calls,
                   sched, tasks, pushed, submitted>>

\* BasicTxCallback::build: registers a clone of the scheduler with the coordinator.
BuildScheduler ==
    /\ sched = 0
    /\ FreeHandles >= 1
    /\ Len(regs) < MaxCallbacks
    /\ regs' = Append(regs, RegRecord)
    /\ callbacks' = Append(callbacks, Len(regs) + 1)
    /\ sched' = Len(regs) + 1
    /\ UNCHANGED dataVars
    /\ UNCHANGED <<state, handles, pc, biz, ret, txn, ops, calls,
                   tasks, pushed, submitted>>

\* BasicTxCallback::push_task
PushTask ==
    /\ sched # 0
    /\ Len(pushed) < MaxTasks
    /\ tasks' = [some |-> TRUE, list |-> Append(tasks.list, Len(pushed) + 1)]
    /\ pushed' = Append(pushed, [txn |-> txn, inTx |-> pc = "tx"])
    /\ UNCHANGED dataVars
    /\ UNCHANGED <<state, callbacks, handles, pc, biz, ret, txn, ops, regs,
                   calls, sched, submitted>>

OpRecord(op, res) == [op |-> op, res |-> res, txn |-> txn]

\* fetch_or_reuse_conn!: the adapter keeps the connection it once obtained, so
\* get_conn can fail only while no primitive has reached storage yet.
Connected == ops # <<>>

StateBegunBeforeBegin(out) == "Begun"

\* The shared state after `self.adapter.begin_txn().await?; set_state(Begun)`.
StateAfterBegin(out) == IF out = "ok" THEN "Begun" ELSE state

\* do_transaction up to tx.await: begin_txn()?, set_state(Begun).
\* At most `most` calls are explored.
BeginTxn(out, most) ==
    /\ pc \in {"idle", "done"}
    /\ handles >= 1
    /\ txn < most
    /\ out = "no_connection" => ~Connected
    /\ txn' = txn + 1
    /\ biz' = NoValue
    /\ ops' = IF out = "no_connection" THEN ops
              ELSE Append(ops, [op |-> "begin", res |-> out, txn |-> txn + 1])
    /\ state' = StateAfterBegin(out)
    /\ IF out = "ok"
       THEN /\ pc' = "tx"
            /\ ret' = NoValue
       ELSE /\ pc' = "done"
            /\ ret' = AdapterErr(out)
    /\ UNCHANGED dataVars
    /\ UNCHANGED <<callbacks, handles, regs, calls, sched, tasks, pushed, submitted>>

\* tx.await yields r; do_transaction goes on to commit_txn or rollback_txn.
BusinessDone(r) ==
    /\ pc = "tx"
    /\ biz' = r
    /\ pc' = IF r.tag = "OkOk" THEN "commit" ELSE "rollback"
    /\ UNCHANGED dataVars
    /\ UNCHANGED <<state, callbacks, handles, ret, txn, ops, regs, calls,
                   sched, tasks, pushed, submitted>>

StateCommittedBeforeCommit(out) == "Committed"

\* The state do_transaction leaves after commit_txn ended with out.
StateAfterCommit(out) == IF out = "ok" THEN "Committed" ELSE state

\* What do_transaction returns after commit_txn ended with out.
ReturnAfterCommit(out) == IF out = "ok" THEN biz ELSE AdapterErr(out)

\* The Ok(Ok(value)) arm: commit_txn()?, set_state(Committed), invoke_callbacks.
CommitDone(out) ==
    /\ pc = "commit"
    /\ ops' = Append(ops, OpRecord("commit", out))
    /\ state' = StateAfterCommit(out)
    /\ ret' = ReturnAfterCommit(out)
    /\ IF out = "ok" THEN InvokeCallbacks(state', ops') ELSE NoInvoke
    /\ pc' = "done"
    /\ UNCHANGED dataVars
    /\ UNCHANGED <<handles, biz, txn, regs, sched, pushed>>

StateRolledBackBeforeRollback(out) == "RolledBack"

\* The state do_transaction leaves after rollback_txn ended with out.
StateAfterRollback(out) == IF out = "ok" THEN "RolledBack" ELSE state

ReturnBusinessAfterRollback(out) == biz

\* What do_transaction returns after rollback_txn ended with out.
ReturnAfterRollback(out) == IF out = "ok" THEN biz ELSE AdapterErr(out)

\* The Ok(Err(user_error)) and Err(sys_err) arms: rollback_txn()?,
\* set_state(RolledBack), invoke_callbacks.
RollbackDone(out) ==
    /\ pc = "rollback"
    /\ ops' = Append(ops, OpRecord("rollback", out))
    /\ state' = StateAfterRollback(out)
    /\ ret' = ReturnAfterRollback(out)
    /\ IF out = "ok" THEN InvokeCallbacks(state', ops') ELSE NoInvoke
    /\ pc' = "done"
    /\ UNCHANGED dataVars
    /\ UNCHANGED <<handles, biz, txn, regs, sched, pushed>>

\* The do_transaction future is dropped by its caller (or unwound by a panic of
\* the business future) while it awaits tx: do_transaction holds no guard, so
\* none of its code runs any more and the borrowed handle is free again.
Cancel ==
    /\ pc = "tx"
    /\ pc' = "done"
    /\ ret' = Cancelled
    /\ UNCHANGED dataVars
    /\ UNCHANGED <<state, callbacks, handles, biz, txn, ops, regs, calls,
                   sched, tasks, pushed, submitted>>

\* The coordinator with callbacks that only record their invocation.
\* ------------------------------------------------------------------ Field
\* The values a field can hold, and the fields of the entity.
FieldValues == {"p", "q"}
FieldNames == {"title", "rating", "cover", "posters"}

\* The fields that make up the field group `album` of the entity.
GroupMembers == {"cover", "posters"}

\* enum Field<T> { Unloaded, Unchanged(T), Set(T) }
FieldUnloaded == [st |-> "Unloaded", val |-> "none"]
FieldUnchanged(v) == [st |-> "Unchanged", val |-> v]
FieldSet(v) == [st |-> "Set", val |-> v]
Field == {FieldUnloaded} \cup {FieldUnchanged(v) : v \in FieldValues}
                        \cup {FieldSet(v) : v \in FieldValues}

\* What a call returns: a value, Some(value), None, (), or the panic
\* "Field is not loaded".
Ok(v) == [tag |-> "Ok", val |-> v]
Some(v) == [tag |-> "Some", val |-> v]
None == [tag |-> "None", val |-> "none"]
Unit == [tag |-> "Unit", val |-> "none"]
NotLoaded == [tag |-> "Panic", val |-> "not_loaded"]
Bool(b) == [tag |-> "Ok", val |-> IF b THEN "true" ELSE "false"]

value_ref_default(fld) ==
    IF fld.st = "Unloaded" THEN Ok("p") ELSE Ok(fld.val)

\* Field::value_ref
value_ref(fld) ==
    IF fld.st = "Unloaded" THEN NotLoaded ELSE Ok(fld.val)

\* Field::value
value(fld) ==
    IF fld.st = "Unloaded" THEN NotLoaded ELSE Ok(fld.val)

\* Deref for Field
deref(fld) ==
    IF fld.st = "Unloaded" THEN NotLoaded ELSE Ok(fld.val)

\* PartialEq<T> for Field<T>: value_ref() == other
eq(fld, other) ==
    IF value_ref(fld).tag = "Panic" THEN NotLoaded
    ELSE Bool(value_ref(fld).val = other)

\* Field::value_ref_opt
value_ref_opt(fld) ==
    IF fld.st = "Unloaded" THEN None ELSE Some(fld.val)

\* Field::value_opt
value_opt(fld) ==
    IF fld.st = "Unloaded" THEN None ELSE Some(fld.val)

changed_ref_of_loaded(fld) ==
    IF fld.st = "Unloaded" THEN None ELSE Some(fld.val)

\* Field::changed_ref
changed_ref(fld) ==
    IF fld.st = "Set" THEN Some(fld.val) ELSE None

\* DbPrimitive::from_domain_primitive of the built-in primitives: a clone.
from_domain_primitive(v) == v

\* Field::to_db_primitive
to_db_primitive(fld) ==
    IF value_ref(fld).tag = "Panic" THEN NotLoaded
    ELSE Ok(from_domain_primitive(value_ref(fld).val))

\* Field::to_db_primitive_update
to_db_primitive_update(fld) ==
    IF fld.st = "Set" THEN Some(from_domain_primitive(fld.val)) ELSE None

\* Field::set
set(fld, v) ==
    CASE fld.st = "Unloaded" -> FieldSet(v)
      [] fld.st = "Unchanged" -> FieldSet(v)
      [] fld.st = "Set" -> FieldSet(v)

\* Field::to_set
to_set(fld) ==
    CASE fld.st = "Unloaded" -> FieldUnloaded
      [] fld.st = "Unchanged" -> FieldSet(fld.val)
      [] fld.st = "Set" -> FieldSet(fld.val)

to_mut_unpromoted(fld) == fld

\* Field::to_mut, as far as the slot goes: Unchanged is promoted to Set.
to_mut(fld) ==
    CASE fld.st = "Unloaded" -> FieldUnloaded
      [] fld.st = "Unchanged" -> FieldSet(fld.val)
      [] fld.st = "Set" -> fld

\* Field::update_value: opt is None or Some(v).
update_value(fld, opt) ==
    IF opt.tag = "Some" THEN set(fld, opt.val) ELSE fld

\* -------------------------------------------------------- ForeignEntities
\* The identities of the related items, and the containers of them.
Ids == 1..MaxId
Containers == SUBSET Ids

\* enum ForeignEntities<C> { Unloaded, Unchanged(C), Reset(C),
\*                           Changed { original, add, remove } }
\* `loaded` and `data` are the ForeignEntitiesState of `original` in Changed,
\* and the container of Unchanged and of Reset.
RelUnloaded ==
    [st |-> "Unloaded", loaded |-> FALSE, data |-> {}, add |-> {}, remove |-> {}]
RelUnchanged(c) ==
    [st |-> "Unchanged", loaded |-> TRUE, data |-> c, add |-> {}, remove |-> {}]
RelReset(c) ==
    [st |-> "Reset", loaded |-> TRUE, data |-> c, add |-> {}, remove |-> {}]
RelChanged(isLoaded, c, a, r) ==
    [st |-> "Changed", loaded |-> isLoaded, data |-> c, add |-> a, remove |-> r]

\* What a read of the relation returns: a container, or the panic
\* "Field is not loaded".
Members(c) == [tag |-> "Ok", set |-> c]
RelNotLoaded == [tag |-> "Panic", set |-> {}]
RelUnit == [tag |-> "Unit", set |-> {}]

\* A call made on the relation: its name, its argument, what it returned.
RelResult(op, arg, res) == [op |-> op, arg |-> arg, res |-> res]

origin_value_ref_of_diff(r) ==
    CASE r.st = "Unloaded" -> RelNotLoaded
      [] OTHER -> Members(r.data)

\* ForeignEntities::origin_value_ref
origin_value_ref(r) ==
    CASE r.st = "Unloaded" -> RelNotLoaded
      [] r.st \in {"Unchanged", "Reset"} -> Members(r.data)
      [] r.st = "Changed" -> IF r.loaded THEN Members(r.data) ELSE RelNotLoaded

current_value_ignores_remove(r) ==
    CASE r.st = "Unloaded" -> RelNotLoaded
      [] r.st \in {"Unchanged", "Reset"} -> Members(r.data)
      [] r.st = "Changed" ->
            IF r.loaded THEN Members(r.data \cup r.add) ELSE RelNotLoaded

\* ForeignEntities::current_value
current_value(r) ==
    CASE r.st = "Unloaded" -> RelNotLoaded
      [] r.st \in {"Unchanged", "Reset"} -> Members(r.data)
      [] r.st = "Changed" ->
            IF r.loaded THEN Members((r.data \ r.remove) \cup r.add)
            ELSE RelNotLoaded

add_keeps_remove(r, x) ==
    CASE r.st = "Unloaded" -> RelChanged(FALSE, {}, {x}, {})
      [] r.st = "Unchanged" ->
            IF x \in r.data THEN r ELSE RelChanged(TRUE, r.data, {x}, {})
      [] r.st = "Reset" -> RelReset(r.data \cup {x})
      [] r.st = "Changed" -> [r EXCEPT !.add = r.add \cup {x}]

add_loads_unloaded(r, x) ==
    CASE r.st = "Unloaded" -> RelChanged(TRUE, {}, {x}, {})
      [] r.st = "Unchanged" ->
            IF x \in r.data THEN r ELSE RelChanged(TRUE, r.data, {x}, {})
      [] r.st = "Reset" -> RelReset(r.data \cup {x})
      [] r.st = "Changed" ->
            IF x \in r.remove THEN [r EXCEPT !.remove = r.remove \ {x}]
            ELSE [r EXCEPT !.add = r.add \cup {x}]

add_reset_to_changed(r, x) ==
    CASE r.st = "Unloaded" -> RelChanged(FALSE, {}, {x}, {})
      [] r.st = "Unchanged" ->
            IF x \in r.data THEN r ELSE RelChanged(TRUE, r.data, {x}, {})
      [] r.st = "Reset" ->
            IF x \in r.data THEN r ELSE RelChanged(TRUE, r.data, {x}, {})
      [] r.st = "Changed" ->
            IF x \in r.remove THEN [r EXCEPT !.remove = r.remove \ {x}]
            ELSE [r EXCEPT !.add = r.add \cup {x}]

\* ForeignEntities::add
add(r, x) ==
    CASE r.st = "Unloaded" -> RelChanged(FALSE, {}, {x}, {})
      [] r.st = "Unchanged" ->
            IF x \in r.data THEN r ELSE RelChanged(TRUE, r.data, {x}, {})
      [] r.st = "Reset" -> RelReset(r.data \cup {x})
      [] r.st = "Changed" ->
            IF x \in r.remove THEN [r EXCEPT !.remove = r.remove \ {x}]
            ELSE [r EXCEPT !.add = r.add \cup {x}]

remove_blind(r, x) ==
    CASE r.st = "Unloaded" -> RelChanged(FALSE, {}, {}, {x})
      [] r.st = "Unchanged" ->
            IF x \notin r.data THEN r ELSE RelChanged(TRUE, r.data, {}, {x})
      [] r.st = "Reset" -> RelReset(r.data \ {x})
      [] r.st = "Changed" -> [r EXCEPT !.remove = r.remove \cup {x}]

remove_unchecked(r, x) ==
    CASE r.st = "Unloaded" -> RelChanged(FALSE, {}, {}, {x})
      [] r.st = "Unchanged" -> RelChanged(TRUE, r.data, {}, {x})
      [] r.st = "Reset" -> RelReset(r.data \ {x})
      [] r.st = "Changed" ->
            IF x \in r.add THEN [r EXCEPT !.add = r.add \ {x}]
            ELSE [r EXCEPT !.remove = r.remove \cup {x}]

remove_keeps_add(r, x) ==
    CASE r.st = "Unloaded" -> RelChanged(FALSE, {}, {}, {x})
      [] r.st = "Unchanged" ->
            IF x \notin r.data THEN r ELSE RelChanged(TRUE, r.data, {}, {x})
      [] r.st = "Reset" -> RelReset(r.data \ {x})
      [] r.st = "Changed" ->
            IF x \in r.add THEN r ELSE [r EXCEPT !.remove = r.remove \cup {x}]

\* ForeignEntities::remove
remove(r, x) ==
    CASE r.st = "Unloaded" -> RelChanged(FALSE, {}, {}, {x})
      [] r.st = "Unchanged" ->
            IF x \notin r.data THEN r ELSE RelChanged(TRUE, r.data, {}, {x})
      [] r.st = "Reset" -> RelReset(r.data \ {x})
      [] r.st = "Changed" ->
            IF x \in r.add THEN [r EXCEPT !.add = r.add \ {x}]
            ELSE [r EXCEPT !.remove = r.remove \cup {x}]

reset_merges(r, c) ==
    IF r.st = "Changed" THEN RelReset((c \ r.remove) \cup r.add) ELSE RelReset(c)

\* ForeignEntities::reset
reset(r, c) == RelReset(c)

\* ----------------------------------------------------------------- entity
\* A projection carries a value for a field or omits the field; it carries
\* a field group whole (as the group's full subset) or omits it whole.
Projections ==
    {sub \in [FieldNames -> FieldValues \cup {"omitted"}] :
        \A f, g \in GroupMembers : sub[f] = "omitted" <=> sub[g] = "omitted"}

NoResult == [op |-> "none", field |-> "none", arg |-> "none", res |-> Unit]

\* An Option<C> entry of an updater.
NoContainer == [some |-> FALSE, set |-> {}]
SomeContainer(c) == [some |-> TRUE, set |-> c]
ContainerOptions == {NoContainer} \cup {SomeContainer(c) : c \in Containers}

\* The updater of the entity: an Option per scalar field, and for the
\* relation the entries genres, add_genres and remove_genres. The updater of
\* the field group is left at its default (every entry None).
Updaters ==
    [scalar : [FieldNames \ GroupMembers -> FieldValues \cup {"none"}],
     genres : ContainerOptions,
     add_genres : ContainerOptions,
     remove_genres : ContainerOptions]

\* Updater::default()
NoUpdater ==
    [scalar |-> [f \in FieldNames \ GroupMembers |-> "none"],
     genres |-> NoContainer,
     add_genres |-> NoContainer,
     remove_genres |-> NoContainer]

\* An entity shell with nothing loaded (Unloaded::unloaded() for every field).
FieldIdle ==
    /\ ent = [f \in FieldNames |-> FieldUnloaded]
    /\ touched = {}
    /\ written = [f \in FieldNames |-> "none"]
    /\ fres = NoResult
    /\ proj = [f \in FieldNames \cup {"genres"} |-> "omitted"]
    /\ upd = NoUpdater

unchanged_as_reset(v) == FieldSet(v)

\* Unchanged<Field<T>> for T
unchanged(v) == FieldUnchanged(v)

\* Subset::to_entity as the entity macro generates it: Unchanged::unchanged
\* for every field of the subset, Unloaded::unloaded() for every other field.
\* The relation is carried with the membership c or omitted; a carried group
\* is converted by its full subset's to_entity, an omitted one by the group's
\* Unloaded::unloaded(), member by member.
ToEntity(sub, c, carried) ==
    /\ ent' = [f \in FieldNames |->
                  IF sub[f] = "omitted" THEN FieldUnloaded
                  ELSE unchanged(sub[f])]
    /\ touched' = {}
    /\ written' = [f \in FieldNames |-> "none"]
    /\ fres' = [op |-> "to_entity", field |-> "none", arg |-> "none", res |-> Unit]
    /\ proj' = [f \in FieldNames \cup {"genres"} |->
                   IF f \in FieldNames THEN sub[f]
                   ELSE IF carried THEN "carried" ELSE "omitted"]
    /\ rel' = IF carried THEN RelUnchanged(c) ELSE RelUnloaded
    /\ stored' = c
    /\ want' = c
    /\ rres' = RelResult("load", c, RelUnit)
    /\ upd' = NoUpdater
    /\ UNCHANGED <<txnVars, runVars, connVars, onceVars, reentVars>>

\* A call that takes the field by shared reference (or a copy of it).
Reads(op, f, arg, res) ==
    /\ fres' = [op |-> op, field |-> f, arg |-> arg, res |-> res]
    /\ UNCHANGED <<ent, touched, written, proj, upd>>
    /\ UNCHANGED <<txnVars, relVars, runVars, connVars, onceVars, reentVars>>

ValueRef(f) == Reads("value_ref", f, "none", value_ref(ent[f]))
Value(f) == Reads("value", f, "none", value(ent[f]))
Deref(f) == Reads("deref", f, "none", deref(ent[f]))
Eq(f, other) == Reads("eq", f, other, eq(ent[f], other))
ValueRefOpt(f) == Reads("value_ref_opt", f, "none", value_ref_opt(ent[f]))
ValueOpt(f) == Reads("value_opt", f, "none", value_opt(ent[f]))
ChangedRef(f) == Reads("changed_ref", f, "none", changed_ref(ent[f]))
ToDbPrimitive(f) == Reads("to_db_primitive", f, "none", to_db_primitive(ent[f]))
ToDbPrimitiveUpdate(f) ==
    Reads("to_db_primitive_update", f, "none", to_db_primitive_update(ent[f]))

\* A call that takes the field by mutable reference: the slot becomes fld,
\* the call returns res, and w is the value it wrote ("none": it wrote none).
\* touched gains f unless the call took a branch that writes nothing: the
\* panic of to_mut, update_value(None), to_set on Unloaded.
Writes(op, f, arg, fld, res, w) ==
    /\ ent' = [ent EXCEPT ![f] = fld]
    /\ fres' = [op |-> op, field |-> f, arg |-> arg, res |-> res]
    /\ touched' = IF \/ res.tag = "Panic"
                     \/ op = "update_value" /\ arg = "none"
                     \/ op = "to_set" /\ ent[f].st = "Unloaded"
                  THEN touched ELSE touched \cup {f}
    /\ written' = IF w = "none" THEN written ELSE [written EXCEPT ![f] = w]
    /\ proj' = proj
    /\ upd' = upd
    /\ UNCHANGED <<txnVars, relVars, runVars, connVars, onceVars, reentVars>>

Set(f, v) == Writes("set", f, v, set(ent[f], v), Unit, v)

UpdateValue(f, v) ==
    Writes("update_value", f, v,
           update_value(ent[f], IF v = "none" THEN None ELSE Some(v)), Unit, v)

ToSet(f) == Writes("to_set", f, "none", to_set(ent[f]), Unit, "none")

\* to_mut, and the caller assigning w through the &mut T it got (w = "none":
\* the caller assigns nothing).  On an Unloaded slot to_mut panics.
ToMut(f, w) ==
    IF ent[f].st = "Unloaded"
    THEN Writes("to_mut", f, w, to_mut(ent[f]), NotLoaded, "none")
    ELSE Writes("to_mut", f, w,
                IF w = "none" THEN to_mut(ent[f])
                ELSE [to_mut(ent[f]) EXCEPT !.val = w],
                Unit, w)

\* The fields of the entity outside its field group.
ScalarNames == FieldNames \ GroupMembers

\* The projections that carry neither the field group nor the relation.
ScalarProjections ==
    {sub \in Projections : \A g \in GroupMembers : sub[g] = "omitted"}

\* The entity is loaded from a projection of its scalar fields, which are
\* then read and written.
NextField ==
    \/ \E sub \in ScalarProjections : ToEntity(sub, {}, FALSE)
    \/ \E f \in ScalarNames :
           \/ ValueRef(f) \/ Value(f) \/ Deref(f)
           \/ \E other \in FieldValues : Eq(f, other)
           \/ ValueRefOpt(f) \/ ValueOpt(f)
           \/ ChangedRef(f) \/ ToDbPrimitive(f) \/ ToDbPrimitiveUpdate(f)
           \/ \E v \in FieldValues : Set(f, v)
           \/ \E v \in FieldValues \cup {"none"} : UpdateValue(f, v)
           \/ ToSet(f)
           \/ \E w \in FieldValues \cup {"none"} : ToMut(f, w)

\* The marks of the FiledValue implementations for Field.
Marks ==
    {"MarkBorrow", "MarkAsRef", "MarkCopy", "MarkConvertToRef",
     "MarkConvertToValue", "MarkAsRefCow", "MarkBorrowCow", "MarkConvertToRefCow"}

\* The field values the target integer type of convert_int! cannot hold.
OutOfRange == {"q"}
Overflow == [tag |-> "Panic", val |-> "overflow"]

\* ConvertTo::convert_to of convert_int!: the same number, or a panic when
\* the target type cannot hold it.
convert_to(v) == IF v \in OutOfRange THEN Overflow ELSE Ok(v)

\* FiledValue::filled under mark m: value_ref(), then the mark's view of
\* the value (a borrow, as_ref or Cow::Borrowed of the same value).
filled(m, fld) ==
    IF fld.st = "Unloaded" THEN NotLoaded
    ELSE IF m = "MarkConvertToValue" THEN convert_to(fld.val)
    ELSE Ok(fld.val)

\* FiledValue::changed under mark m: MarkCopy returns value_opt(), every
\* other mark maps its view over changed_ref().
changed(m, fld) ==
    IF m = "MarkCopy" THEN value_opt(fld)
    ELSE IF changed_ref(fld) = None THEN None
    ELSE IF m = "MarkConvertToValue"
         THEN (IF convert_to(fld.val) = Overflow THEN Overflow ELSE Some(fld.val))
    ELSE Some(fld.val)

Filled(m, f) == Reads("filled", f, m, filled(m, ent[f]))
Changed(m, f) == Reads("changed", f, m, changed(m, ent[f]))

\* An entity is loaded from a projection, and its fields are read through
\* the FiledValue accessors.
NextFiled ==
    \/ \E sub \in ScalarProjections : ToEntity(sub, {}, FALSE)
    \/ \E f \in ScalarNames, m \in Marks : Filled(m, f) \/ Changed(m, f)

\* `for t in values { self.genres.add(t) }`
RECURSIVE AddEach(_, _)
AddEach(r, items) ==
    IF items = {} THEN r
    ELSE LET x == CHOOSE y \in items : TRUE
         IN  AddEach(add(r, x), items \ {x})

\* `for t in values { self.genres.remove(t) }`
RECURSIVE RemoveEach(_, _)
RemoveEach(r, ids) ==
    IF ids = {} THEN r
    ELSE LET x == CHOOSE y \in ids : TRUE
         IN  RemoveEach(remove(r, x), ids \ {x})

\* The entry u[f] of updater u as the Option update_value takes; the entries
\* of the group's updater are None.
Entry(u, f) ==
    IF f \in GroupMembers \/ u.scalar[f] = "none" THEN None ELSE Some(u.scalar[f])

update_relation_removes_first(r, u) ==
    LET r1 == IF u.genres.some THEN reset(r, u.genres.set) ELSE r
        r2 == RemoveEach(r1, u.remove_genres.set)
    IN  AddEach(r2, u.add_genres.set)

\* The statements update_fields runs on the relation: update_value(genres),
\* then the adds, then the removes.
update_relation(r, u) ==
    LET r1 == IF u.genres.some THEN reset(r, u.genres.set) ELSE r
        r2 == AddEach(r1, u.add_genres.set)
    IN  RemoveEach(r2, u.remove_genres.set)

\* GuardedStruct::update_fields as the entity macro generates it.
UpdateFields(u) ==
    /\ fres.op = "to_entity"
    /\ ent' = [f \in FieldNames |-> update_value(ent[f], Entry(u, f))]
    /\ rel' = update_relation(rel, u)
    /\ touched' = touched \cup {f \in FieldNames : Entry(u, f) # None}
    /\ written' = [f \in FieldNames |->
                      IF Entry(u, f) # None THEN u.scalar[f] ELSE written[f]]
    /\ want' = ((IF u.genres.some THEN u.genres.set ELSE want)
                    \cup u.add_genres.set) \ u.remove_genres.set
    /\ fres' = [op |-> "update_fields", field |-> "none", arg |-> "none", res |-> Unit]
    /\ rres' = RelResult("update_fields", {}, RelUnit)
    /\ upd' = u
    /\ UNCHANGED <<proj, stored>>
    /\ UNCHANGED <<txnVars, runVars, connVars, onceVars, reentVars>>

\* An entity is loaded from a projection of its scalar fields and its
\* relation, and is then updated once.
NextUpdate ==
    \/ \E sub \in ScalarProjections, c \in Containers, carried \in BOOLEAN :
           fres = NoResult /\ ToEntity(sub, c, carried)
    \/ fres.op = "to_entity" /\ \E u \in Updaters : UpdateFields(u)

\* --------------------------------------------------------------- relation
SaveOutcomes == {"ok", "clear_failed", "add_failed", "remove_failed"}

\* The storage calls save_foreign makes for r, in order.
SaveCalls(r) ==
    CASE r.st \in {"Unloaded", "Unchanged"} -> <<>>
      [] r.st = "Reset" -> <<"clear", "add">>
      [] r.st = "Changed" -> <<"add", "remove">>

save_foreign_without_clear(r, mem, out) ==
    CASE r.st \in {"Unloaded", "Unchanged"} -> mem
      [] r.st = "Reset" ->
            CASE out = "clear_failed" -> mem
              [] OTHER -> mem \cup r.data
      [] r.st = "Changed" ->
            CASE out = "add_failed" -> mem
              [] out = "remove_failed" -> mem \cup r.add
              [] OTHER -> (mem \cup r.add) \ r.remove

\* ForeignEntitiesOperator::save_foreign: the stored membership after it,
\* when the storage calls end as `out` says.  add_foreign inserts the rows
\* that are not stored yet, remove_foreign and clear_foreign delete rows.
save_foreign(r, mem, out) ==
    CASE r.st \in {"Unloaded", "Unchanged"} -> mem
      [] r.st = "Reset" ->
            CASE out = "clear_failed" -> mem
              [] out = "add_failed" -> {}
              [] OTHER -> r.data
      [] r.st = "Changed" ->
            CASE out = "add_failed" -> mem
              [] out = "remove_failed" -> mem \cup r.add
              [] OTHER -> (mem \cup r.add) \ r.remove

\* A relation nothing was done with: ForeignEntities::unloaded(), nothing stored.
RelIdle ==
    /\ rel = RelUnloaded
    /\ stored = {}
    /\ want = {}
    /\ rres = RelResult("none", {}, RelUnit)

\* An entity is loaded whose relation has the stored membership c: the
\* projection carries the relation (Unchanged::unchanged) or omits it
\* (Unloaded::unloaded).
LoadRel(c, carried) ==
    /\ stored' = c
    /\ want' = c
    /\ rel' = IF carried THEN RelUnchanged(c) ELSE RelUnloaded
    /\ rres' = RelResult("load", c, RelUnit)
    /\ UNCHANGED <<txnVars, fieldVars, runVars, connVars, onceVars, reentVars>>

AddRel(x) ==
    /\ rel' = add(rel, x)
    /\ want' = want \cup {x}
    /\ rres' = RelResult("add", {x}, RelUnit)
    /\ UNCHANGED <<stored, txnVars, fieldVars, runVars, connVars, onceVars, reentVars>>

RemoveRel(x) ==
    /\ rel' = remove(rel, x)
    /\ want' = want \ {x}
    /\ rres' = RelResult("remove", {x}, RelUnit)
    /\ UNCHANGED <<stored, txnVars, fieldVars, runVars, connVars, onceVars, reentVars>>

ResetRel(c) ==
    /\ rel' = reset(rel, c)
    /\ want' = c
    /\ rres' = RelResult("reset", c, RelUnit)
    /\ UNCHANGED <<stored, txnVars, fieldVars, runVars, connVars, onceVars, reentVars>>

\* ForeignEntities::update_value: Some(c) resets to c, None does nothing.
UpdateValueRel(some, c) ==
    /\ rel' = IF some THEN reset(rel, c) ELSE rel
    /\ want' = IF some THEN c ELSE want
    /\ rres' = RelResult(IF some THEN "update_value" ELSE "update_value_none",
                         c, RelUnit)
    /\ UNCHANGED <<stored, txnVars, fieldVars, runVars, connVars, onceVars, reentVars>>

CurrentValue ==
    /\ rres' = RelResult("current_value", {}, current_value(rel))
    /\ UNCHANGED <<rel, stored, want, txnVars, fieldVars, runVars, connVars, onceVars, reentVars>>

OriginValueRef ==
    /\ rres' = RelResult("origin_value_ref", {}, origin_value_ref(rel))
    /\ UNCHANGED <<rel, stored, want, txnVars, fieldVars, runVars, connVars, onceVars, reentVars>>

SaveForeign(out) ==
    /\ out = "ok" \/ \E i \in 1..Len(SaveCalls(rel)) : out = SaveCalls(rel)[i] \o "_failed"
    /\ stored' = save_foreign(rel, stored, out)
    /\ rres' = RelResult("save_foreign", {},
                         [tag |-> IF out = "ok" THEN "Ok" ELSE "Err", set |-> {}])
    /\ UNCHANGED <<rel, want, txnVars, fieldVars, runVars, connVars, onceVars, reentVars>>

NextRel ==
    \/ \E c \in Containers, carried \in BOOLEAN : LoadRel(c, carried)
    \/ \E x \in Ids : AddRel(x) \/ RemoveRel(x)
    \/ \E c \in Containers : ResetRel(c) \/ UpdateValueRel(TRUE, c)
    \/ UpdateValueRel(FALSE, {})
    \/ CurrentValue
    \/ OriginValueRef
    \/ \E out \in SaveOutcomes : SaveForeign(out)

\* One entity is built from any projection and then only read.
NextEntity ==
    \/ /\ fres = NoResult
       /\ \E sub \in Projections, c \in Containers, carried \in BOOLEAN :
              ToEntity(sub, c, carried)
    \/ \E f \in FieldNames :
           \/ ValueRef(f) \/ Value(f) \/ Deref(f)
           \/ \E other \in FieldValues : Eq(f, other)
           \/ ValueRefOpt(f) \/ ValueOpt(f)
    \/ CurrentValue
    \/ OriginValueRef

\* ---------------------------------------------------------------------------
\* DbAdapterDiesel: one connection slot behind an async mutex, shared by the
\* adapter and its clones. Each operation locks the slot, fills it from the
\* pool when it is empty, and runs on the connection it finds there.
\* ---------------------------------------------------------------------------

AdapterClones == 1..MaxClones

DbOps == {"begin", "commit", "rollback", "sql"}

GetConnOutcomes == {"ok", "no_connection"}

OperationOutcomes == {"ok", "failed"}

CloneIdle == [at |-> "idle", op |-> "none"]

DbRecord(c, conn, res) == [clone |-> c, op |-> cpc[c].op, conn |-> conn, res |-> res]

\* Provider::build for DbAdapterDiesel: conn is Arc::new(Mutex::new(None)).
ConnIdle ==
    /\ slot = 0
    /\ lockBy = 0
    /\ cpc = [c \in AdapterClones |-> CloneIdle]
    /\ granted = 0
    /\ dblog = <<>>

\* A clone calls begin_txn, commit_txn, rollback_txn or an SQL operation and
\* reaches `self.conn.lock().await`.
CallAdapter(c, op) ==
    /\ cpc[c].at = "idle"
    /\ Len(dblog) + Cardinality({d \in AdapterClones : cpc[d].at # "idle"}) < MaxAdapterOps
    /\ cpc' = [cpc EXCEPT ![c] = [at |-> "locking", op |-> op]]
    /\ UNCHANGED <<slot, lockBy, granted, dblog>>
    /\ UNCHANGED <<txnVars, fieldVars, relVars, runVars, onceVars, reentVars>>

AfterLockAlwaysFetches(c) == "fetching"

\* fetch_or_reuse_conn!: Some(c) => c, None => ask the pool.
AfterLock(c) == IF slot # 0 THEN "operating" ELSE "fetching"

\* The lock is granted: tokio's Mutex gives it to one waiter at a time.
LockConn(c) ==
    /\ cpc[c].at = "locking"
    /\ lockBy = 0
    /\ lockBy' = c
    /\ cpc' = [cpc EXCEPT ![c].at = AfterLock(c)]
    /\ UNCHANGED <<slot, granted, dblog>>
    /\ UNCHANGED <<txnVars, fieldVars, relVars, runVars, onceVars, reentVars>>

\* `*lock = Some(db_pool.get_conn().await?)`: the pool answers while the lock
\* is held. On an error `?` leaves the operation and the guard is dropped.
GetConn(c, out) ==
    /\ cpc[c].at = "fetching"
    /\ IF out = "ok"
       THEN /\ granted' = granted + 1
            /\ slot' = granted + 1
            /\ cpc' = [cpc EXCEPT ![c].at = "operating"]
            /\ UNCHANGED <<lockBy, dblog>>
       ELSE /\ dblog' = Append(dblog, DbRecord(c, 0, out))
            /\ cpc' = [cpc EXCEPT ![c] = CloneIdle]
            /\ lockBy' = 0
            /\ UNCHANGED <<slot, granted>>
    /\ UNCHANGED <<txnVars, fieldVars, relVars, runVars, onceVars, reentVars>>

\* The operation runs on the connection in the slot and ends; the guard is
\* dropped on return.
Operate(c, out) ==
    /\ cpc[c].at = "operating"
    /\ dblog' = Append(dblog, DbRecord(c, slot, out))
    /\ cpc' = [cpc EXCEPT ![c] = CloneIdle]
    /\ lockBy' = 0
    /\ UNCHANGED <<slot, granted>>
    /\ UNCHANGED <<txnVars, fieldVars, relVars, runVars, onceVars, reentVars>>

\* The caller drops the operation's future at one of its await points: a
\* guard it holds is dropped with it.
CancelAdapterCall(c) ==
    /\ cpc[c].at # "idle"
    /\ dblog' = Append(dblog, DbRecord(c, 0, "cancelled"))
    /\ cpc' = [cpc EXCEPT ![c] = CloneIdle]
    /\ lockBy' = IF lockBy = c THEN 0 ELSE lockBy
    /\ UNCHANGED <<slot, granted>>
    /\ UNCHANGED <<txnVars, fieldVars, relVars, runVars, onceVars, reentVars>>

NextConn ==
    \/ \E c \in AdapterClones, op \in DbOps : CallAdapter(c, op)
    \/ \E c \in AdapterClones : LockConn(c)
    \/ \E c \in AdapterClones, out \in GetConnOutcomes : GetConn(c, out)
    \/ \E c \in AdapterClones, out \in OperationOutcomes : Operate(c, out)
    \/ \E c \in AdapterClones : CancelAdapterCall(c)


\* ------------------------------------------------------------ task runner
TaskIds == 1..MaxSpawns

\* The tasks spawn was called with so far.
Spawned == {t \in TaskIds : phase[t] # "new"}

\* get_or_init_with: the channel is open and empty, the executor thread
\* waits in receiver.recv().
RunIdle ==
    /\ queue = <<>>
    /\ recv = "open"
    /\ phase = [t \in TaskIds |-> "new"]
    /\ ranOn = [t \in TaskIds |-> "none"]
    /\ sres = [task |-> 0, res |-> "none"]

SendInline(t) ==
    /\ queue' = queue
    /\ phase' = [phase EXCEPT ![t] = "done"]
    /\ ranOn' = [ranOn EXCEPT ![t] = "submitter"]
    /\ sres' = [task |-> t, res |-> "ok"]

\* sender.send(Box::new(task)).expect(..) for task t: the task is appended
\* to the channel, or, the receiver being gone, send returns Err and expect
\* panics (the task is dropped with the error).
Send(t) ==
    /\ queue' = IF recv = "open" THEN Append(queue, t) ELSE queue
    /\ phase' = [phase EXCEPT ![t] = IF recv = "open" THEN "queued" ELSE "rejected"]
    /\ ranOn' = ranOn
    /\ sres' = [task |-> t, res |-> IF recv = "open" THEN "ok" ELSE "panic"]

\* TokioLocalTaskRunner::spawn, called on any thread with the next task.
SpawnTask ==
    /\ Spawned # TaskIds
    /\ Send(Cardinality(Spawned) + 1)
    /\ recv' = recv
    /\ UNCHANGED <<txnVars, fieldVars, relVars, connVars, onceVars, reentVars>>

\* The executor thread: receiver.recv() yields the oldest task, which is
\* handed to spawn_local.
ExecutorRecv ==
    /\ recv = "open"
    /\ queue # <<>>
    /\ queue' = Tail(queue)
    /\ phase' = [phase EXCEPT ![Head(queue)] = "local"]
    /\ UNCHANGED <<recv, ranOn, sres, txnVars, fieldVars, relVars, connVars, onceVars, reentVars>>

AnyLocal(t) == phase[t] = "local"

\* The local task the LocalSet polls next for the first time: tasks handed
\* to spawn_local wait in its queue in the order they were handed over, which
\* is the order they were sent in.
NextLocal(t) == phase[t] = "local" /\ \A u \in TaskIds : phase[u] = "local" => t <= u

\* The executor thread polls the local task of t: pre_run, and run up to its
\* first suspension.
TaskStart(t) ==
    /\ recv = "open"
    /\ NextLocal(t)
    /\ phase' = [phase EXCEPT ![t] = "running"]
    /\ ranOn' = [ranOn EXCEPT ![t] = "executor"]
    /\ UNCHANGED <<queue, recv, sres, txnVars, fieldVars, relVars, connVars, onceVars, reentVars>>

\* The executor thread polls the local task of t to its end: run completes,
\* post_run.
TaskEnd(t) ==
    /\ recv = "open"
    /\ phase[t] = "running"
    /\ phase' = [phase EXCEPT ![t] = "done"]
    /\ UNCHANGED <<queue, recv, ranOn, sres, txnVars, fieldVars, relVars, connVars, onceVars, reentVars>>

\* The executor thread ends: the receiver is dropped with the tasks still in
\* the channel, the LocalSet with the tasks not yet finished.
ExecutorStops ==
    /\ recv = "open"
    /\ recv' = "closed"
    /\ queue' = <<>>
    /\ phase' = [t \in TaskIds |->
                    IF phase[t] \in {"queued", "local", "running"}
                    THEN "dropped" ELSE phase[t]]
    /\ UNCHANGED <<ranOn, sres, txnVars, fieldVars, relVars, connVars, onceVars, reentVars>>

NextRunner ==
    \/ SpawnTask
    \/ ExecutorRecv
    \/ \E t \in TaskIds : TaskStart(t) \/ TaskEnd(t)
    \/ ExecutorStops

\* The runner while its executor thread lives: the sender is kept in a static
\* OnceLock, so receiver.recv() never yields None and the thread does not end.
NextRunnerLive ==
    \/ SpawnTask
    \/ ExecutorRecv
    \/ \E t \in TaskIds : TaskStart(t) \/ TaskEnd(t)

\* The executor thread keeps running its LocalSet: a task in the channel is
\* received, a local task is polled, and a run that has started completes.
FairRunner ==
    /\ WF_vars(ExecutorRecv)
    /\ \A t \in TaskIds : WF_vars(TaskStart(t)) /\ WF_vars(TaskEnd(t))

\* ---------------------------------------------------------------------------
\* TokioLocalTaskRunner::get_or_init_with: callers on any threads share one
\* OnceLock. A caller that finds it empty makes a channel, starts an executor
\* thread on the receiver and offers the sender to the OnceLock. A queue is
\* named after the caller that made it.
\* ---------------------------------------------------------------------------

Callers == 1..MaxCallers

StartOutcomes == {"ok", "failed"}

\* A sender of queue q is alive: its maker still holds it, the OnceLock
\* holds it, or a caller holds a clone of the runner stored for q.
SenderAlive(q) ==
    \/ ipc[q] = "started"
    \/ once = q
    \/ \E c \in Callers : ipc[c] = "done" /\ got[c] = q

\* The tasks sent into the queues 1..n.
RECURSIVE SentUpTo(_)
SentUpTo(n) == IF n = 0 THEN 0 ELSE sentTo[n] + SentUpTo(n - 1)

\* Nothing was called yet: the OnceLock is empty.
OnceIdle ==
    /\ once = 0
    /\ ipc = [c \in Callers |-> "new"]
    /\ got = [c \in Callers |-> 0]
    /\ exec = [q \in Callers |-> "none"]
    /\ sentTo = [q \in Callers |-> 0]
    /\ recvd = [q \in Callers |-> 0]

\* `if let Some(this) = handler.get() { return Ok(this.clone()) }`
GetHandler(c) ==
    /\ ipc[c] = "new"
    /\ ipc' = [ipc EXCEPT ![c] = IF once # 0 THEN "done" ELSE "empty"]
    /\ got' = [got EXCEPT ![c] = once]
    /\ UNCHANGED <<once, exec, sentTo, recvd>>
    /\ UNCHANGED <<txnVars, fieldVars, relVars, runVars, connVars, reentVars>>

\* unbounded_channel() and start_in_new_thread()?: the executor thread is
\* started on the receiver, or building the runtime fails and the call
\* returns the error, dropping the channel.
StartExecutor(c, out) ==
    /\ ipc[c] = "empty"
    /\ ipc' = [ipc EXCEPT ![c] = IF out = "ok" THEN "started" ELSE "failed"]
    /\ exec' = [exec EXCEPT ![c] = IF out = "ok" THEN "serving" ELSE "none"]
    /\ UNCHANGED <<once, got, sentTo, recvd>>
    /\ UNCHANGED <<txnVars, fieldVars, relVars, runVars, connVars, reentVars>>

StoredAfterOverwrite(c) == c

\* OnceLock::get_or_init: the first offer is stored, a later one is dropped
\* with its sender.
StoredAfter(c) == IF once = 0 THEN c ELSE once

\* `handler.get_or_init(|| TokioLocalTaskRunner { sender })` and the clone
\* of what the OnceLock holds.
GetOrInit(c) ==
    /\ ipc[c] = "started"
    /\ once' = StoredAfter(c)
    /\ got' = [got EXCEPT ![c] = once']
    /\ ipc' = [ipc EXCEPT ![c] = "done"]
    /\ UNCHANGED <<exec, sentTo, recvd>>
    /\ UNCHANGED <<txnVars, fieldVars, relVars, runVars, connVars, reentVars>>

\* A caller spawns a task through the handle it was given: the task is sent
\* into the queue of that handle.
SpawnVia(c) ==
    /\ ipc[c] = "done"
    /\ SentUpTo(MaxCallers) < MaxInitSpawns
    /\ sentTo' = [sentTo EXCEPT ![got[c]] = @ + 1]
    /\ UNCHANGED <<once, ipc, got, exec, recvd>>
    /\ UNCHANGED <<txnVars, fieldVars, relVars, runVars, connVars, reentVars>>

\* The executor of queue q: receiver.recv() yields a task.
QueueRecv(q) ==
    /\ exec[q] = "serving"
    /\ recvd[q] < sentTo[q]
    /\ recvd' = [recvd EXCEPT ![q] = @ + 1]
    /\ UNCHANGED <<once, ipc, got, exec, sentTo>>
    /\ UNCHANGED <<txnVars, fieldVars, relVars, runVars, connVars, reentVars>>

\* The executor of queue q: with every sender dropped and the channel empty
\* receiver.recv() yields None, the loop and the thread end.
QueueEnds(q) ==
    /\ exec[q] = "serving"
    /\ ~SenderAlive(q)
    /\ recvd[q] = sentTo[q]
    /\ exec' = [exec EXCEPT ![q] = "ended"]
    /\ UNCHANGED <<once, ipc, got, sentTo, recvd>>
    /\ UNCHANGED <<txnVars, fieldVars, relVars, runVars, connVars, reentVars>>

NextOnce ==
    \/ \E c \in Callers : GetHandler(c) \/ GetOrInit(c) \/ SpawnVia(c)
    \/ \E c \in Callers, out \in StartOutcomes : StartExecutor(c, out)
    \/ \E q \in Callers : QueueRecv(q) \/ QueueEnds(q)

\* ---------------------------------------------------------------------------
\* TxnManagerDiesel::invoke_callbacks step by step, with callbacks that use a
\* handle of the same coordinator while they are invoked.
\* ---------------------------------------------------------------------------

\* What an invoked callback does with its handle of the coordinator.
CallbackDoes == {"nothing", "register_callback", "state"}

ReentIdle ==
    /\ rlist = <<>>
    /\ rlock = "free"
    /\ rtaken = <<>>
    /\ rinv = 0
    /\ rreg = <<>>
    /\ rlog = <<>>
    /\ rstuck = FALSE

\* register_callback called between invocations.
RegisterIdle ==
    /\ ~rstuck
    /\ rtaken = <<>>
    /\ Len(rreg) < MaxReentCallbacks
    /\ rlist' = Append(rlist, Len(rreg) + 1)
    /\ rreg' = Append(rreg, 0)
    /\ UNCHANGED <<rlock, rtaken, rinv, rlog, rstuck>>
    /\ UNCHANGED <<txnVars, fieldVars, relVars, runVars, connVars, onceVars>>

LockHeldWhileInvoking(taken) == IF taken = <<>> THEN "free" ELSE "held"

\* `drop(callbacks_lock)` right after the take: the mutex of the list is
\* free while the callbacks are invoked.
LockWhileInvoking(taken) == "free"

\* invoke_callbacks up to its loop: lock, take the list, drop the lock,
\* return when nothing was taken.
InvokeTake ==
    /\ ~rstuck
    /\ rtaken = <<>>
    /\ rinv < MaxInvokes
    /\ rinv' = rinv + 1
    /\ rtaken' = rlist
    /\ rlist' = <<>>
    /\ rlock' = LockWhileInvoking(rlist)
    /\ UNCHANGED <<rreg, rlog, rstuck>>
    /\ UNCHANGED <<txnVars, fieldVars, relVars, runVars, connVars, onceVars>>

\* One turn of `for cb in callbacks { cb.call(state) }`: the callback does
\* `what` on its handle. register_callback locks the list's mutex, which
\* must be free: a std Mutex locked again by the thread that holds it
\* deadlocks or panics.
CallNext(what) ==
    /\ ~rstuck
    /\ rtaken # <<>>
    /\ what = "register_callback" => Len(rreg) < MaxReentCallbacks
    /\ IF what = "register_callback" /\ rlock = "held"
       THEN /\ rstuck' = TRUE
            /\ UNCHANGED <<rlist, rlock, rtaken, rreg, rlog>>
       ELSE /\ rstuck' = FALSE
            /\ rlog' = Append(rlog, [cb |-> Head(rtaken), inv |-> rinv, did |-> what])
            /\ rtaken' = Tail(rtaken)
            /\ rlock' = IF Tail(rtaken) = <<>> THEN "free" ELSE rlock
            /\ IF what = "register_callback"
               THEN /\ rlist' = Append(rlist, Len(rreg) + 1)
                    /\ rreg' = Append(rreg, rinv)
               ELSE UNCHANGED <<rlist, rreg>>
    /\ UNCHANGED rinv
    /\ UNCHANGED <<txnVars, fieldVars, relVars, runVars, connVars, onceVars>>

NextReent ==
    \/ RegisterIdle
    \/ InvokeTake
    \/ \E what \in CallbackDoes : CallNext(what)

\* ------------------------------------------------------- specifications
\* Every component as its constructor leaves it.
Init ==
    TxnIdle /\ FieldIdle /\ RelIdle /\ RunIdle /\ ConnIdle /\ OnceIdle /\ ReentIdle

Next ==
    \/ Clone
    \/ Drop
    \/ RegisterCallback
    \/ \E out \in BeginOutcomes : BeginTxn(out, MaxTxns)
    \/ \E r \in BizResults : BusinessDone(r)
    \/ \E out \in CommitOutcomes : CommitDone(out)
    \/ \E out \in RollbackOutcomes : RollbackDone(out)
    \/ Cancel

Spec == Init /\ [][Next]_vars

\* The coordinator together with the post-commit scheduler.
NextSched ==
    \/ Clone
    \/ Drop
    \/ RegisterCallback
    \/ BuildScheduler
    \/ PushTask
    \/ \E out \in BeginOutcomes : BeginTxn(out, MaxSchedTxns)
    \/ \E r \in BizResults : BusinessDone(r)
    \/ \E out \in CommitOutcomes : CommitDone(out)
    \/ \E out \in RollbackOutcomes : RollbackDone(out)
    \/ Cancel

SpecSched == Init /\ [][NextSched]_vars

\* An entity and the operations on its fields.
SpecField == Init /\ [][NextField]_vars

\* Projections converted to entities, and reads of the result.
SpecEntity == Init /\ [][NextEntity]_vars

\* The task runner and its executor thread.
SpecRunner == Init /\ [][NextRunner]_vars

\* A relation, the operations on it and its persistence.
SpecRel == Init /\ [][NextRel]_vars

\* The task runner with an executor thread that lives and is scheduled.
SpecRunnerLive == Init /\ [][NextRunnerLive]_vars /\ FairRunner

\* An entity read through the FiledValue accessors.
SpecFiled == Init /\ [][NextFiled]_vars

\* An entity and update_fields.
SpecUpdate == Init /\ [][NextUpdate]_vars

\* Concurrent first uses of the task runner.
SpecOnce == Init /\ [][NextOnce]_vars

\* Callbacks that use the coordinator while they are invoked.
SpecReent == Init /\ [][NextReent]_vars

\* The storage adapter, its clones and the pool.
SpecConn == Init /\ [][NextConn]_vars

\* ================================================================== claims
Terminal == {"Committed", "RolledBack"}

\* The outcome a transaction's callbacks are owed: Committed if its commit
\* succeeded, RolledBack otherwise.
Owed(t) == IF Ended(t, "commit", "ok") THEN "Committed" ELSE "RolledBack"

\* C1: after one do_transaction whose begin succeeded and the drop of every
\* handle, each callback registered before the transaction resolved has been
\* invoked exactly once, after a commit or rollback was issued to storage, and
\* with the outcome the transaction is owed.
C1_CallbacksOnceAfterResolution ==
    (handles = 0 /\ txn = 1 /\ Ended(1, "begin", "ok")) =>
        \A cb \in 1..Len(regs) :
            regs[cb].state \notin Terminal =>
                /\ Cardinality(CallsOf(cb)) = 1
                /\ \A i \in CallsOf(cb) :
                       calls[i].resolved /\ calls[i].outcome = Owed(1)

\* C2: a step hands tasks to the runner only when it invokes the scheduler's
\* callback with Committed while the shared state is Committed, and once the
\* scheduler's callback was invoked with RolledBack no task is ever submitted.
C2_TasksOnlyOnCommitted ==
    [][/\ submitted' # submitted =>
              /\ state' = "Committed"
              /\ \E i \in (1..Len(calls')) \ (1..Len(calls)) :
                     calls'[i].cb = sched /\ calls'[i].outcome = "Committed"
       /\ (\E i \in 1..Len(calls') :
               calls'[i].cb = sched' /\ calls'[i].outcome = "RolledBack")
              => submitted' = <<>>]_vars

\* The scheduler's callback was invoked with RolledBack while tasks were pending.
C2_Witness ==
    /\ tasks.some /\ tasks.list # <<>>
    /\ submitted = <<>>
    /\ \E i \in 1..Len(calls) : calls[i].cb = sched /\ calls[i].outcome = "RolledBack"

\* The scheduler's callback has not been consumed by an earlier transaction.
SchedulerPending == \A i \in CallsOf(sched) : calls[i].txn = txn

C4_BusinessErrorPath ==
    [][/\ (pc = "rollback" /\ biz.tag = "OkErr" /\ pc' = "done"
             /\ (Ended(txn, "rollback", "ok"))') =>
              /\ ret' = biz
              /\ ret'.tag = "OkErr"
              /\ state' = "RolledBack"
              /\ ~(Issued(txn, "commit"))'
              /\ submitted' = submitted
       /\ (pc' = "done" /\ biz'.tag = "OkErr" /\ (Ended(txn, "rollback", "ok"))') =>
              \A t \in 1..Len(pushed') :
                  pushed'[t].txn = txn' => Count(t, submitted') = 0]_vars

\* A business failure was rolled back while a task pushed in its business
\* future was pending.
C4_Witness ==
    /\ pc = "done" /\ biz.tag = "OkErr" /\ Ended(txn, "rollback", "ok")
    /\ ret = biz
    /\ \E t \in 1..Len(pushed) : pushed[t].inTx /\ pushed[t].txn = txn
    /\ \E i \in CallsOf(sched) : calls[i].outcome = "RolledBack"

C8_CancelRollsBack ==
    (ret = Cancelled /\ handles = 0) =>
        (Issued(txn, "rollback") /\ state = "RolledBack")

\* C9: the state only moves NotInTransaction -> Begun -> Committed or
\* RolledBack, and a Committed or RolledBack state never changes.
C9_StateMachine ==
    [][/\ state = "NotInTransaction" => state' \in {"NotInTransaction", "Begun"}
       /\ state = "Begun" => state' \in {"Begun"} \cup Terminal
       /\ state \in Terminal => state' = state]_vars

\* C10: the drop of the last handle empties the pending list and invokes every
\* pending callback, in order, with RolledBack when the state is Begun (with
\* the state's own outcome when it is Committed or RolledBack, with nothing
\* when it is NotInTransaction); the drop of any other handle changes neither
\* the pending list nor the invocations.
C10_DropOfLastHandle ==
    [][handles' = handles - 1 =>
          IF handles = 1
          THEN /\ callbacks' = <<>>
               /\ state = "NotInTransaction" => calls' = calls
               /\ state # "NotInTransaction" =>
                      /\ Len(calls') = Len(calls) + Len(callbacks)
                      /\ SubSeq(calls', 1, Len(calls)) = calls
                      /\ \A i \in 1..Len(callbacks) :
                             /\ calls'[Len(calls) + i].cb = callbacks[i]
                             /\ calls'[Len(calls) + i].outcome =
                                    IF state = "Committed" THEN "Committed"
                                    ELSE "RolledBack"
          ELSE callbacks' = callbacks /\ calls' = calls]_vars

\* The last handle was dropped in state Begun with two callbacks pending.
C10_Witness ==
    /\ handles = 0 /\ state = "Begun" /\ callbacks = <<>>
    /\ Cardinality({i \in 1..Len(calls) :
                        calls[i].txn = txn /\ calls[i].outcome = "RolledBack"}) = 2

\* C11: a callback registered after the transaction has resolved (the shared
\* state was Committed or RolledBack at register_callback) is never silently
\* dropped: it is still pending, or it has been invoked exactly once with the
\* terminal outcome that was already known when it was registered.
C11_LateCallbackGetsKnownOutcome ==
    \A cb \in 1..Len(regs) :
        regs[cb].state \in Terminal =>
            \/ InList(cb, callbacks) /\ CallsOf(cb) = {}
            \/ \E i \in CallsOf(cb) :
                   /\ CallsOf(cb) = {i}
                   /\ calls[i].outcome = regs[cb].state

\* The error do_transaction returns when begin_txn fails with `out`.
BeginError == {AdapterErr("no_connection"), AdapterErr("begin_failed")}

\* C12: when no connection can be obtained or the begin primitive fails,
\* do_transaction returns that error after at most one begin attempt, the
\* business future is never polled, no commit or rollback is issued, no
\* callback is invoked and the coordinator's state stays what it was.
C12_BeginFailure ==
    [][txn' = txn + 1 /\ pc' # "tx" =>
          /\ pc' = "done"
          /\ ret' \in BeginError
          /\ biz' = NoValue
          /\ state' = state
          /\ ~Resolving(txn', ops')
          /\ Cardinality({i \in 1..Len(ops') : ops'[i].txn = txn'}) <= 1
          /\ ret' = AdapterErr("no_connection") => ops' = ops
          /\ calls' = calls /\ callbacks' = callbacks]_vars

\* A begin failed on a coordinator whose earlier transaction committed.
C12_Witness ==
    /\ pc = "done" /\ ret \in BeginError
    /\ txn = 2 /\ state = "Committed"
    /\ Ended(2, "begin", "begin_failed")

\* C13: reading an Unloaded field (value, value_ref, deref, comparison with a
\* value) fails with the not-loaded panic, never with a default; once a value
\* v was written to a field, whatever its state before, every such read
\* succeeds and returns v (a comparison: whether v equals the other value).
C13_UnloadedReadsPanic ==
    fres.op \in {"value", "value_ref", "deref", "eq"} =>
        LET f == fres.field
        IN  /\ ent[f].st = "Unloaded" => fres.res = NotLoaded
            /\ written[f] # "none" =>
                   fres.res = IF fres.op = "eq"
                              THEN Bool(written[f] = fres.arg)
                              ELSE Ok(written[f])

\* A comparison on an Unloaded field panicked while the other field, set
\* from Unloaded, is readable.
C13_Witness ==
    /\ fres = [op |-> "eq", field |-> "title", arg |-> "q", res |-> NotLoaded]
    /\ ent["title"] = FieldUnloaded
    /\ ent["rating"] = FieldSet("q") /\ written["rating"] = "q"
    /\ value_ref(ent["rating"]) = Ok("q")

WriteOps == {"set", "update_value", "to_mut", "to_set"}

\* C14: under set, update_value, to_mut and to_set a Set field stays Set, an
\* Unchanged field becomes Set on its first write (to_mut and to_set keep the
\* loaded value), no field goes back to Unloaded or from Set to Unchanged, and
\* to_mut on an Unloaded field panics and leaves it Unloaded.
C14_MonotonicTowardSet ==
    [][fres'.op \in WriteOps =>
          \A f \in FieldNames :
              LET acted == /\ fres'.field = f
                           /\ ~(fres'.op = "update_value" /\ fres'.arg = "none")
              IN  /\ ent[f].st = "Set" => ent'[f].st = "Set"
                  /\ ent[f].st = "Unchanged" =>
                         /\ ent'[f].st = IF acted THEN "Set" ELSE "Unchanged"
                         /\ acted /\ fres'.op = "to_set" => ent'[f].val = ent[f].val
                         /\ acted /\ fres'.op = "to_mut" /\ fres'.arg = "none" =>
                                ent'[f].val = ent[f].val
                  /\ ent[f].st = "Unloaded" =>
                         /\ ent'[f].st \in {"Unloaded", "Set"}
                         /\ fres'.field = f /\ fres'.op = "to_mut" =>
                                ent'[f] = FieldUnloaded /\ fres'.res = NotLoaded
                  /\ ent'[f].st = "Unloaded" => ent[f].st = "Unloaded"
                  /\ ent'[f].st = "Unchanged" => ent'[f] = ent[f]]_vars

\* to_mut promoted a loaded field to Set without a value being assigned, and
\* to_mut on the Unloaded field has panicked since.
C14_Witness ==
    /\ fres = [op |-> "to_mut", field |-> "rating", arg |-> "none", res |-> NotLoaded]
    /\ ent["rating"] = FieldUnloaded
    /\ ent["title"] = FieldSet("p") /\ written["title"] = "none"
    /\ touched = {"title"}

\* The fields an update statement built from to_db_primitive_update carries.
UpdateStatement == {f \in FieldNames : to_db_primitive_update(ent[f]).tag = "Some"}

\* C15: changed_ref and to_db_primitive_update return the field's value if
\* and only if the field is Set, and absence for Unloaded and Unchanged; the
\* update statement built from them carries exactly the fields written since
\* the entity was loaded.
C15_ChangedIffSet ==
    /\ fres.op \in {"changed_ref", "to_db_primitive_update"} =>
           /\ fres.res = IF ent[fres.field].st = "Set"
                          THEN Some(ent[fres.field].val) ELSE None
           /\ fres.res.tag = "Some" <=> fres.field \in touched
    /\ UpdateStatement = touched

\* changed_ref returned absence for a loaded field that was not written while
\* the other field was written.
C15_Witness ==
    /\ fres = [op |-> "changed_ref", field |-> "title", arg |-> "none", res |-> None]
    /\ ent["title"] = FieldUnchanged("p")
    /\ ent["rating"] = FieldSet("q")
    /\ UpdateStatement = {"rating"}

\* C16: in every reachable Changed state of a ForeignEntities value, whatever
\* add, remove and reset calls led to it, no identity is pending both in add
\* and in remove.
C16_AddRemoveDisjoint ==
    rel.st = "Changed" => rel.add \cap rel.remove = {}

\* add(1) met identity 1 pending in remove and took it out of remove, while
\* identity 2 is still pending in remove.
C16_Witness ==
    /\ rres = RelResult("add", {1}, RelUnit)
    /\ rel = RelChanged(TRUE, {1, 2}, {}, {2})

\* C17: reset(S2), from whatever state, yields Reset(S2), and current_value()
\* is then S2 whatever diff was pending before.
C17_ResetWins ==
    [][rres'.op = "reset" =>
          /\ rel' = RelReset(rres'.arg)
          /\ current_value(rel') = Members(rres'.arg)]_vars

\* reset({2}) was called on a relation loaded with membership {1}.
C17_Witness ==
    /\ rres = RelResult("reset", {2}, RelUnit)
    /\ rel = RelReset({2})
    /\ stored = {1}
    /\ current_value(rel) = Members({2})

\* The relation was loaded as Unchanged(S), S = rel.data is still what is
\* stored, and the add/remove calls since describe the membership S again.
NetsToLoaded ==
    /\ rel.st \in {"Unchanged", "Changed"}
    /\ rel.loaded
    /\ stored = rel.data
    /\ want = rel.data

\* C18: from Unchanged(S), after add/remove calls whose net effect is only to
\* re-add identities already in S, current_value() is S and persisting the
\* diff with save_foreign leaves the stored membership S.
C18_RedundantEditsNoOp ==
    [][/\ NetsToLoaded => current_value(rel) = Members(rel.data)
       /\ NetsToLoaded /\ rres'.op = "save_foreign" /\ rres' # rres =>
              stored' = rel.data]_vars

\* On Unchanged({1}): add(2), add(1), remove(2) left identity 1 of S pending
\* in add; the diff was then saved.
C18_Witness ==
    /\ rres = RelResult("save_foreign", {}, [tag |-> "Ok", set |-> {}])
    /\ rel = RelChanged(TRUE, {1}, {1}, {})
    /\ stored = {1} /\ want = {1}

\* C19: to_entity of any projection yields an entity whose carried fields are
\* Unchanged with the supplied value (the carried relation Unchanged with the
\* supplied membership) and whose omitted fields, the members of an omitted
\* field group included, are Unloaded (the omitted relation Unloaded); a read
\* of a carried field returns the supplied value, a read of an omitted one
\* fails with the not-loaded panic.
C19_ToEntity ==
    /\ \A f \in FieldNames :
           ent[f] = IF proj[f] = "omitted" THEN FieldUnloaded
                    ELSE FieldUnchanged(proj[f])
    /\ rel = IF proj["genres"] = "carried" THEN RelUnchanged(stored)
             ELSE RelUnloaded
    /\ fres.op \in {"value", "value_ref", "deref"} =>
           fres.res = IF proj[fres.field] = "omitted" THEN NotLoaded
                      ELSE Ok(proj[fres.field])
    /\ fres.op = "eq" =>
           fres.res = IF proj[fres.field] = "omitted" THEN NotLoaded
                      ELSE Bool(proj[fres.field] = fres.arg)
    /\ rres.op = "current_value" =>
           rres.res = IF proj["genres"] = "carried" THEN Members(stored)
                      ELSE RelNotLoaded

\* A projection carrying title and the relation but not the field group was
\* converted; reading a member of the group panicked.
C19_Witness ==
    /\ fres = [op |-> "value_ref", field |-> "cover", arg |-> "none",
               res |-> NotLoaded]
    /\ proj["title"] = "p" /\ ent["title"] = FieldUnchanged("p")
    /\ proj["rating"] = "omitted" /\ ent["rating"] = FieldUnloaded
    /\ ent["cover"] = FieldUnloaded /\ ent["posters"] = FieldUnloaded
    /\ rel = RelUnchanged({1})

\* C20: TokioLocalTaskRunner::spawn runs nothing of any task and can always
\* be called, however many tasks wait in the channel: with the receiver alive
\* it only appends the task to the channel and returns, with the receiver
\* gone it panics; a task is run only by the executor thread, after it was
\* received from the channel.
C20_SpawnOnlyEnqueues ==
    [][/\ Spawned # TaskIds => ENABLED SpawnTask
       /\ \A t \in TaskIds :
              phase'[t] \in {"running", "done"} =>
                  /\ ranOn'[t] = "executor"
                  /\ phase[t] \in {"local", "running", "done"}
       /\ sres' # sres =>
              /\ ranOn' = ranOn
              /\ phase[sres'.task] = "new"
              /\ IF recv = "open"
                 THEN /\ sres'.res = "ok"
                      /\ queue' = Append(queue, sres'.task)
                      /\ phase'[sres'.task] = "queued"
                 ELSE /\ sres'.res = "panic"
                      /\ queue' = queue
                      /\ phase'[sres'.task] = "rejected"]_vars

\* Task 1 was run by the executor thread, task 2 was lost with the executor
\* thread, and the spawn of task 3 panicked on the closed channel.
C20_Witness ==
    /\ phase[1] = "done" /\ ranOn[1] = "executor"
    /\ phase[2] = "dropped"
    /\ sres = [task |-> 3, res |-> "panic"]
    /\ recv = "closed"

\* The step runs invoke_callbacks: do_transaction after a successful commit
\* or rollback, or the drop of the last handle.
Invoking ==
    \/ pc \in {"commit", "rollback"} /\ pc' = "done" /\ ops'[Len(ops')].res = "ok"
    \/ handles = 1 /\ handles' = 0

\* C21: invoke_callbacks empties the pending list and invokes the callbacks it
\* took in registration order, all with one outcome; an invoke_callbacks that
\* finds the list empty invokes nothing; nothing else invokes a callback; and
\* over all invocations, through whichever handles, no callback is invoked
\* more than once.
C21_DrainOnceInOrder ==
    [][/\ Invoking =>
              /\ callbacks' = <<>>
              /\ callbacks = <<>> => calls' = calls
              /\ \/ calls' = calls
                 \/ /\ Len(calls') = Len(calls) + Len(callbacks)
                    /\ SubSeq(calls', 1, Len(calls)) = calls
                    /\ \A i \in 1..Len(callbacks) :
                           /\ calls'[Len(calls) + i].cb = callbacks[i]
                           /\ calls'[Len(calls) + i].outcome =
                                  calls'[Len(calls) + 1].outcome
                    /\ \A i, j \in 1..Len(callbacks) :
                           i < j => callbacks[i] < callbacks[j]
       /\ ~Invoking => calls' = calls
       /\ \A cb \in 1..Len(regs') :
              Cardinality({i \in 1..Len(calls') : calls'[i].cb = cb}) <= 1]_vars

\* Two callbacks were invoked in registration order when the transaction
\* committed; the later drop of the last handle found the list empty and
\* invoked nothing.
C21_Witness ==
    /\ handles = 0 /\ txn = 1 /\ state = "Committed" /\ callbacks = <<>>
    /\ Len(calls) = 2
    /\ calls[1].cb = 1 /\ calls[2].cb = 2
    /\ calls[1].resolved /\ calls[2].resolved
    /\ calls[1].outcome = "Committed" /\ calls[2].outcome = "Committed"

C23_OneLazyConnection ==
    [][/\ granted' <= 1
       /\ slot' = granted'
       /\ (dblog' = <<>> /\ \A c \in AdapterClones : cpc'[c].at = "idle")
              => granted' = 0
       /\ \A i \in 1..Len(dblog') :
              /\ dblog'[i].res \in OperationOutcomes => dblog'[i].conn = 1
              /\ dblog'[i].res \notin OperationOutcomes => dblog'[i].conn = 0
       /\ \A c \in AdapterClones :
              /\ cpc[c].at = "fetching" /\ granted' = granted /\ cpc'[c].at # "fetching"
                    => /\ slot' = 0 /\ lockBy' = 0
                       /\ Len(dblog') = Len(dblog) + 1
                       /\ dblog'[Len(dblog')].clone = c
                       /\ dblog'[Len(dblog')].res \in {"no_connection", "cancelled"}
              /\ cpc'[c].at = "operating" => slot' = 1 /\ lockBy' = c]_vars

\* The pool handed out one connection for the first operation; a second
\* operation, issued through another clone while the first was in flight, ran
\* on the same connection.
C23_Witness ==
    /\ Len(dblog) = 2 /\ granted = 1 /\ slot = 1 /\ lockBy = 0
    /\ dblog[1].res = "ok" /\ dblog[1].conn = 1 /\ dblog[1].op = "begin"
    /\ dblog[2].res = "failed" /\ dblog[2].conn = 1 /\ dblog[2].op = "sql"
    /\ dblog[1].clone # dblog[2].clone

\* C24: on an Unloaded relation, add(item) yields Changed with original
\* Unloaded, add = {item} and an empty remove; remove(id) yields Changed with
\* original Unloaded, an empty add and remove = {id}; reset(c) yields Reset(c).
C24_FromUnloaded ==
    [][rel.st = "Unloaded" =>
          /\ rres'.op = "add" => rel' = RelChanged(FALSE, {}, rres'.arg, {})
          /\ rres'.op = "remove" => rel' = RelChanged(FALSE, {}, {}, rres'.arg)
          /\ rres'.op = "reset" => rel' = RelReset(rres'.arg)]_vars

\* remove(2) was called on a relation that was never loaded.
C24_Witness ==
    /\ rres = RelResult("remove", {2}, RelUnit)
    /\ rel = RelChanged(FALSE, {}, {}, {2})
    /\ stored = {}

\* C25: on Unchanged(orig), add(item) changes nothing when orig holds the
\* item's identity and otherwise yields Changed with original Data(orig),
\* add = {item} and an empty remove; remove(id) changes nothing when orig does
\* not hold id and otherwise yields Changed with original Data(orig), an empty
\* add and remove = {id}.
C25_FromUnchanged ==
    [][rel.st = "Unchanged" =>
          /\ rres'.op = "add" =>
                 \A x \in rres'.arg :
                     rel' = IF x \in rel.data THEN rel
                            ELSE RelChanged(TRUE, rel.data, {x}, {})
          /\ rres'.op = "remove" =>
                 \A x \in rres'.arg :
                     rel' = IF x \notin rel.data THEN rel
                            ELSE RelChanged(TRUE, rel.data, {}, {x})]_vars

\* remove(2) was called on Unchanged({1}) and changed nothing.
C25_Witness ==
    /\ rres = RelResult("remove", {2}, RelUnit)
    /\ rel = RelUnchanged({1})

\* C26: on Reset(set), add and remove change the set itself and the relation
\* stays Reset.
C26_ResetEditedInPlace ==
    [][rel.st = "Reset" =>
          /\ rres'.op = "add" => rel' = RelReset(rel.data \cup rres'.arg)
          /\ rres'.op = "remove" => rel' = RelReset(rel.data \ rres'.arg)]_vars

\* add(2) was called on a Reset relation and the set gained identity 2.
C26_Witness ==
    /\ rres = RelResult("add", {2}, RelUnit)
    /\ rel = RelReset({1, 2})

\* C27: on Changed, add(item) takes the item's identity out of remove when it
\* is pending there and otherwise puts the item into add; remove(id) takes id
\* out of add when it is pending there and otherwise puts it into remove; the
\* original is left as it was. So add(x) and then remove(id(x)) on a fresh
\* Unloaded relation yield Changed with add and remove both empty.
C27_FromChanged ==
    [][rel.st = "Changed" =>
          /\ rres'.op = "add" =>
                 \A x \in rres'.arg :
                     rel' = IF x \in rel.remove
                            THEN RelChanged(rel.loaded, rel.data, rel.add,
                                            rel.remove \ {x})
                            ELSE RelChanged(rel.loaded, rel.data,
                                            rel.add \cup {x}, rel.remove)
          /\ rres'.op = "remove" =>
                 \A x \in rres'.arg :
                     /\ rel' = IF x \in rel.add
                               THEN RelChanged(rel.loaded, rel.data,
                                               rel.add \ {x}, rel.remove)
                               ELSE RelChanged(rel.loaded, rel.data, rel.add,
                                               rel.remove \cup {x})
                     /\ rel = add(RelUnloaded, x) =>
                            rel' = RelChanged(FALSE, {}, {}, {})]_vars

\* remove(1) was called after add(1) on a relation that was never loaded.
C27_Witness ==
    /\ rres = RelResult("remove", {1}, RelUnit)
    /\ rel = RelChanged(FALSE, {}, {}, {})

\* C28: current_value() of Changed with original Data(orig) is orig without
\* the identities in remove, plus the items in add; of Unchanged(c) and of
\* Reset(c) it is c; and the call leaves the relation as it was.
C28_CurrentValue ==
    [][rres'.op = "current_value" =>
          /\ rel' = rel
          /\ rel.st = "Changed" /\ rel.loaded =>
                 rres'.res = Members((rel.data \ rel.remove) \cup rel.add)
          /\ rel.st \in {"Unchanged", "Reset"} =>
                 rres'.res = Members(rel.data)]_vars

\* current_value() was called on Changed{Data({1}), add {2}, remove {1}}.
C28_Witness ==
    /\ rres = RelResult("current_value", {}, Members({2}))
    /\ rel = RelChanged(TRUE, {1}, {2}, {1})

\* The relation has no loaded membership: Unloaded, or Changed with original
\* Unloaded.
NoOriginal(r) == r.st = "Unloaded" \/ (r.st = "Changed" /\ ~r.loaded)

\* C29: origin_value_ref() and current_value() panic with "Field is not
\* loaded" on Unloaded and on Changed with original Unloaded;
\* origin_value_ref() on Changed with original Data(orig) returns orig.
C29_NotLoadedPanics ==
    [][/\ rres'.op \in {"origin_value_ref", "current_value"} /\ NoOriginal(rel)
             => rres'.res = RelNotLoaded
       /\ rres'.op = "origin_value_ref" /\ rel.st = "Changed" /\ rel.loaded
             => rres'.res = Members(rel.data)]_vars

\* origin_value_ref() was called on Changed{Unloaded, add {1}, remove {}}.
C29_Witness ==
    /\ rres = RelResult("origin_value_ref", {}, RelNotLoaded)
    /\ rel = RelChanged(FALSE, {}, {1}, {})

\* The step invokes the scheduler's callback with Committed.
SchedulerCommitted ==
    \E i \in (1..Len(calls')) \ (1..Len(calls)) :
        calls'[i].cb = sched /\ calls'[i].outcome = "Committed"

\* C30: push_task appends the task to the pending list, which exists from
\* then on, and hands nothing to the runner and invokes nothing; the step
\* that invokes the scheduler's callback with Committed hands the pending
\* tasks to the runner in the order they were pushed and leaves none pending;
\* no task is handed to the runner twice.
C30_PushOrder ==
    [][/\ pushed' # pushed =>
              /\ tasks'.some
              /\ tasks'.list = Append(tasks.list, Len(pushed'))
              /\ submitted' = submitted
              /\ calls' = calls
       /\ SchedulerCommitted =>
              /\ submitted' = submitted \o tasks.list
              /\ tasks' = NoTasks
              /\ \A i, j \in 1..Len(tasks.list) :
                     i < j => tasks.list[i] < tasks.list[j]
       /\ \A t \in 1..Len(pushed') : Count(t, submitted') <= 1]_vars

\* Task 1 was pushed before the transaction began and task 2 during its
\* business future; the commit handed both to the runner, in that order.
C30_Witness ==
    /\ Len(pushed) = 2 /\ ~pushed[1].inTx /\ pushed[2].inTx
    /\ \E i \in CallsOf(sched) : calls[i].outcome = "Committed"
    /\ submitted = <<1, 2>>
    /\ tasks = NoTasks

\* C31: after the step that invokes the scheduler's callback the pending task
\* list holds no task, whether the outcome is Committed (the tasks were handed
\* to the runner) or RolledBack (the tasks were discarded).
C31_NoTaskPendingAfterCall ==
    [][(\E i \in (1..Len(calls')) \ (1..Len(calls)) : calls'[i].cb = sched)
          => /\ tasks'.list = <<>>
             /\ \A i \in (1..Len(calls')) \ (1..Len(calls)) :
                    (calls'[i].cb = sched /\ calls'[i].outcome = "Committed")
                        => submitted' = submitted \o tasks.list]_vars

\* How far a task given to spawn gets, one step at a time.
TaskSteps ==
    {<<"new", "queued">>, <<"queued", "local">>, <<"local", "running">>,
     <<"running", "done">>}

C33_DiffTracksSet ==
    (rel.st \in {"Unchanged", "Changed"} /\ rel.loaded) =>
        /\ current_value(rel) = Members(want)
        /\ \A x \in rres.arg :
               /\ rres.op = "add" => x \in current_value(rel).set
               /\ rres.op = "remove" => x \notin current_value(rel).set

\* C34: a save_foreign that succeeds performs no store operation for Unloaded
\* and Unchanged, leaves the reset collection stored for Reset, and for
\* Changed stores the pending adds and deletes the pending removes, which
\* gives the same membership in either order; when the store held the value's
\* original before (any membership for Reset), it holds current_value() after.
C34_SaveStoresCurrentValue ==
    [][(rres'.op = "save_foreign" /\ rres'.res.tag = "Ok") =>
          /\ rel.st \in {"Unloaded", "Unchanged"} => stored' = stored
          /\ rel.st = "Reset" => stored' = rel.data
          /\ rel.st = "Changed" =>
                 /\ stored' = (stored \cup rel.add) \ rel.remove
                 /\ stored' = (stored \ rel.remove) \cup rel.add
          /\ (rel.st = "Reset" \/ (rel.loaded /\ stored = rel.data)) =>
                 Members(stored') = current_value(rel)]_vars

\* Changed{Data({1}), add {2}, remove {1}} was saved; the store now holds
\* {2}, which is current_value().
C34_Witness ==
    /\ rres = RelResult("save_foreign", {}, [tag |-> "Ok", set |-> {}])
    /\ rel = RelChanged(TRUE, {1}, {2}, {1})
    /\ stored = {2}
    /\ current_value(rel) = Members(stored)

\* C35: on a coordinator that ran a do_transaction after the callback was
\* registered, the callback is invoked with Committed only when a transaction
\* that was begun after its registration, or was in flight at its
\* registration, has committed: a Committed state left by an earlier
\* transaction is not reported to it, also when the later begin failed or
\* the coordinator was dropped before the later transaction resolved.
C35_NoStaleCommitted ==
    \A i \in 1..Len(calls) :
        (calls[i].outcome = "Committed" /\ calls[i].txn > regs[calls[i].cb].txn) =>
            \E j \in 1..Len(ops) :
                /\ ops[j].op = "commit" /\ ops[j].res = "ok"
                /\ \/ ops[j].txn > regs[calls[i].cb].txn
                   \/ /\ ops[j].txn = regs[calls[i].cb].txn
                      /\ regs[calls[i].cb].state = "Begun"

\* C36: no pushed task stays pending forever, also not a task pushed after
\* the scheduler's callback was invoked. A pending task can only be settled by
\* an invocation of the scheduler's callback, so a task that is pending after
\* the callback was invoked with Committed still has that callback in the
\* coordinator's list.
C36_PendingTaskHasCallback ==
    (/\ tasks.list # <<>>
     /\ CallsOf(sched) # {}
     /\ \A i \in CallsOf(sched) : calls[i].outcome = "Committed")
        => InList(sched, callbacks)

\* C37: however the get_or_init_with calls interleave, every caller that was
\* given a handle was given one to the queue the OnceLock holds, the executor
\* of that queue is alive, tasks were only sent into that queue, an executor
\* of any other queue has received nothing and, once its maker's call has
\* ended, has ended or can end.
C37_OneServedQueue ==
    /\ \A c \in Callers : ipc[c] = "done" =>
           /\ got[c] = once /\ once # 0
           /\ exec[once] = "serving"
    /\ once # 0 => exec[once] = "serving"
    /\ \A q \in Callers : sentTo[q] > recvd[q] => exec[q] = "serving"
    /\ \A q \in Callers : q # once =>
           /\ sentTo[q] = 0 /\ recvd[q] = 0
           /\ (exec[q] # "none" /\ ipc[q] = "done") =>
                  (exec[q] = "ended" \/ ENABLED QueueEnds(q))

\* Both callers found the OnceLock empty and started an executor; caller 2
\* won, caller 1 was given queue 2 as well, its own executor has ended, and
\* a task spawned through a handle was received by the executor of queue 2.
C37_Witness ==
    /\ once = 2 /\ got[1] = 2 /\ got[2] = 2
    /\ exec[1] = "ended" /\ exec[2] = "serving"
    /\ sentTo[2] = 1 /\ recvd[2] = 1

C39_UpdateFields ==
    [][fres'.op = "update_fields" =>
          /\ \A f \in FieldNames :
                 IF f \in GroupMembers \/ upd'.scalar[f] = "none"
                 THEN ent'[f] = ent[f]
                 ELSE ent'[f] = FieldSet(upd'.scalar[f])
          /\ upd' = NoUpdater => (ent' = ent /\ rel' = rel)
          /\ upd'.genres.some =>
                 rel' = RelReset((upd'.genres.set \cup upd'.add_genres.set)
                                    \ upd'.remove_genres.set)
          /\ ~upd'.genres.some =>
                 rel' = RemoveEach(AddEach(rel, upd'.add_genres.set),
                                   upd'.remove_genres.set)]_vars

\* An entity with title Unchanged(p), rating Unloaded and genres
\* Unchanged({1}) was updated with rating Some(q), genres Some({2}),
\* add_genres Some({1}) and remove_genres Some({1, 2}).
C39_Witness ==
    /\ fres.op = "update_fields"
    /\ upd.scalar["title"] = "none" /\ upd.scalar["rating"] = "q"
    /\ upd.genres = SomeContainer({2})
    /\ upd.add_genres = SomeContainer({1})
    /\ upd.remove_genres = SomeContainer({1, 2})
    /\ ent["title"] = FieldUnchanged("p") /\ ent["rating"] = FieldSet("q")
    /\ stored = {1}
    /\ rel = RelReset({})

\* C40: after a changed() accessor of any mark was called on a field, its
\* result is a value if and only if the field is Set and is None when the
\* field is Unchanged or Unloaded, as changed_ref gives; after a filled()
\* accessor was called on an Unloaded field, its result is the panic.
C40_ChangedAgreesWithChangedRef ==
    /\ fres.op = "changed" =>
           /\ fres.res.tag = "Some" <=> ent[fres.field].st = "Set"
           /\ ent[fres.field].st # "Set" => fres.res = None
    /\ (fres.op = "filled" /\ ent[fres.field].st = "Unloaded") =>
           fres.res = NotLoaded

====
